---- MODULE Spec2Model ----
(***************************************************************************)
(* A model of the SQLite controller of src/app/data.ts (class              *)
(* DBController): the three tables images, tags and image_tags, the        *)
(* mutation handlers, and the paginated tagged-image query                  *)
(* getPaginatedTaggedImagesWithTags with its two store round trips.         *)
(*                                                                          *)
(* An image row is modelled by its id: src, width and height are copied     *)
(* unchanged from the row into every result and no handler reads them.      *)
(* A tag name is modelled by a natural number; the order of the numbers is  *)
(* the order of the names under SQLite's comparison (ORDER BY name ASC).    *)
(***************************************************************************)
EXTENDS Integers, Sequences, FiniteSets, TLC

(* ------------------------------ bounds -------------------------------- *)

\* createImage is enabled while fewer than MaxImages images were inserted
MaxImages == 2
\* createTag inserts while fewer than MaxTags tags were inserted
MaxTags == 2
\* the largest page number a caller asks for
MaxPage == 2
\* the largest page size a caller asks for
MaxPageSize == 2
\* how many different answers the store may pass through while one query
\* call is suspended between its two awaits
MaxViews == 2

ImageIds == 1..MaxImages
TagIds == 1..MaxTags
\* tag names, in their sort order
Names == 1..MaxTags

(* ------------------------------- state -------------------------------- *)

VARIABLES
    images,        \* table images: the set of image ids
    tags,          \* table tags: a set of rows [id, name]
    image_tags,    \* table image_tags: a set of rows <<image_id, tag_id>>
    lastImageID,   \* the last id the store assigned to an image
    lastTagID,     \* the last id the store assigned to a tag
    qpc,           \* position of the query call: "idle", "filtered", "done"
    query,         \* its argument {tagIDs, page, pageSize}
    pir,           \* its local paginatedImageResult
    result,        \* what it returned
    qviews,        \* history: the answers an uninterrupted call would have
                   \* given on each store state this call has seen
    qcalls,        \* history: the store calls the query call has issued
    ret,           \* history: the last mutation call, its outcome and the
                   \* tables it found
    pcall,         \* the paginated call of the Prisma controller in flight
    upd            \* the updateImageTags calls in flight, one per caller

store == <<images, tags, image_tags, lastImageID, lastTagID>>
qvars == <<qpc, query, pir, result, qviews, qcalls>>
aux == <<pcall, upd>>
vars == <<images, tags, image_tags, lastImageID, lastTagID,
          qpc, query, pir, result, qviews, qcalls, ret, pcall, upd>>

(* --------------------------- sequence helpers -------------------------- *)

Range(s) == {s[k] : k \in 1..Len(s)}

Min(S) == CHOOSE m \in S : \A x \in S : m <= x

Max0(a, b) == IF a >= b THEN a ELSE b

Min0(a, b) == IF a <= b THEN a ELSE b

\* ORDER BY id ASC over a set of ids
RECURSIVE SortAsc(_)
SortAsc(S) ==
    IF S = {} THEN <<>>
    ELSE LET m == Min(S) IN <<m>> \o SortAsc(S \ {m})

\* Array.prototype.slice(start, end): negative indices count from the end,
\* both are clamped to [0, length], an empty array when end <= start
Slice(arr, start, end) ==
    LET len == Len(arr)
        k == IF start < 0 THEN Max0(len + start, 0) ELSE Min0(start, len)
        final == IF end < 0 THEN Max0(len + end, 0) ELSE Min0(end, len)
    IN  IF final <= k THEN <<>> ELSE SubSeq(arr, k + 1, final)

\* getPage with the end index taken for a length: arr.slice(start, pageSize)
getPage_LengthArg(arr, pageNum, pageSize) ==
    LET start == (pageNum - 1) * pageSize
    IN  Slice(arr, start, pageSize)

\* getPage with a 0-based page number: start = pageNum * pageSize
getPage_ZeroBased(arr, pageNum, pageSize) ==
    LET start == pageNum * pageSize
        end == start + pageSize
    IN  Slice(arr, start, end)

\* getPage with an inclusive end index: one element more than pageSize
getPage_InclusiveEnd(arr, pageNum, pageSize) ==
    LET start == (pageNum - 1) * pageSize
        end == start + pageSize + 1
    IN  Slice(arr, start, end)

getPage(arr, pageNum, pageSize) ==
    LET start == (pageNum - 1) * pageSize
        end == start + pageSize
    IN  Slice(arr, start, end)

(* ------------------------------ the store ------------------------------ *)

\* The connection is opened with journal_mode=WAL and case_sensitive_like=OFF
\* and nothing else: no PRAGMA foreign_keys=ON is issued, and SQLite does not
\* enforce foreign keys (nor run ON DELETE CASCADE) on a connection unless
\* that pragma is set.
foreign_keys == FALSE

\* SELECT id, name FROM tags WHERE id = ?
getTagByID(tagID) ==
    {t \in tags : t.id = tagID}

\* SELECT id, name FROM tags WHERE name = ?
getTagByName(name) ==
    {t \in tags : t.name = name}

\* ORDER BY name ASC over a set of tag rows (names are unique)
RECURSIVE SortByName(_)
SortByName(tgs) ==
    IF tgs = {} THEN <<>>
    ELSE LET t == CHOOSE x \in tgs : \A y \in tgs : x.name <= y.name
         IN  <<t>> \o SortByName(tgs \ {t})

\* SELECT id, name FROM tags WHERE id IN
\*   (SELECT tag_id FROM image_tags WHERE image_id = ?) ORDER BY name ASC
getTagsForImage(imgID) ==
    SortByName({t \in tags : <<imgID, t.id>> \in image_tags})

(* ------------------------ the paginated queries ------------------------ *)

\* the untagged query as an outer join filtered on the tags that exist: the
\* images none of whose rows reaches a tag
UntaggedMatches_NoLiveTag ==
    SortAsc({i \in images : {t \in tags : <<i, t.id>> \in image_tags} = {}})

\* SELECT ... FROM images
\* WHERE id NOT in (SELECT DISTINCT image_id FROM image_tags) ORDER BY id ASC
UntaggedMatches ==
    SortAsc({i \in images : i \notin {r[1] : r \in image_tags}})

getPaginatedUntaggedTaggedImages(q) ==
    LET matches == UntaggedMatches
        taggedMatches == [k \in 1..Len(matches) |->
                             [id |-> matches[k], tags |-> <<>>]]
    IN  [total |-> Len(taggedMatches),
         page |-> q.page,
         pageSize |-> q.pageSize,
         data |-> getPage(taggedMatches, q.page, q.pageSize)]

\* the rows of image_tags WHERE tag_id in (tagIDs), for one group image_id
GroupRows(imgID, tagIDs) ==
    {r \in image_tags : r[1] = imgID /\ r[2] \in Range(tagIDs)}

\* the filter without its HAVING clause: the images with any of the tags
TaggedMatches_AnyTag(tagIDs) ==
    SortAsc({i \in images : GroupRows(i, tagIDs) # {}})

\* SELECT ... FROM images WHERE id IN (
\*   SELECT distinct(image_id) FROM image_tags WHERE tag_id in (tagIDs)
\*   GROUP BY image_ID HAVING COUNT(tag_id) = tagIDs.length) ORDER BY id ASC
\* A group exists only for an image_id with at least one selected row, and
\* COUNT(tag_id) counts the rows of the group.
TaggedMatches(tagIDs) ==
    SortAsc({i \in images :
                /\ GroupRows(i, tagIDs) # {}
                /\ Cardinality(GroupRows(i, tagIDs)) = Len(tagIDs)})

\* getPaginatedImagesWithTags counting the page instead of the matches
getPaginatedImagesWithTags_PageTotal(q) ==
    LET matches == TaggedMatches(q.tagIDs)
    IN  [total |-> Len(getPage(matches, q.page, q.pageSize)),
         page |-> q.page,
         pageSize |-> q.pageSize,
         data |-> getPage(matches, q.page, q.pageSize)]

getPaginatedImagesWithTags(q) ==
    LET matches == TaggedMatches(q.tagIDs)
    IN  [total |-> Len(matches),
         page |-> q.page,
         pageSize |-> q.pageSize,
         data |-> getPage(matches, q.page, q.pageSize)]

\* SELECT i.image_id, t.id, t.name FROM image_tags as i, tags as t
\* WHERE image_id in (imageIDs) and i.tag_id = t.id: the joined rows
JoinRows(imageIDs) ==
    {[image_id |-> p[1][1], id |-> p[2].id, name |-> p[2].name] :
        p \in {x \in image_tags \X tags :
                  x[1][1] \in Range(imageIDs) /\ x[1][2] = x[2].id}}

\* ORDER BY i.image_id ASC, t.id ASC
RowBefore_ById(a, b) ==
    \/ a.image_id < b.image_id
    \/ a.image_id = b.image_id /\ a.id <= b.id

\* ORDER BY i.image_id ASC, t.name ASC
RowBefore(a, b) ==
    \/ a.image_id < b.image_id
    \/ a.image_id = b.image_id /\ a.name <= b.name

RECURSIVE SortRows(_)
SortRows(rows) ==
    IF rows = {} THEN <<>>
    ELSE LET a == CHOOSE x \in rows : \A y \in rows : RowBefore(x, y)
         IN  <<a>> \o SortRows(rows \ {a})

EnrichmentQuery(imageIDs) == SortRows(JoinRows(imageIDs))

\* the loop over imgTags that fills the Map img2Tags: after the first n rows
\* img2Tags[i] is the list pushed so far for image i (<<>> when the Map has
\* no entry, which is what `img2Tags.get(id) || []` reads)
RECURSIVE Img2Tags(_, _)
Img2Tags(imgTags, n) ==
    IF n = 0 THEN [i \in ImageIds |-> <<>>]
    ELSE LET prev == Img2Tags(imgTags, n - 1)
             it == imgTags[n]
             currTags == prev[it.image_id]
             tag == [id |-> it.id, name |-> it.name]
         IN  [prev EXCEPT ![it.image_id] = Append(currTags, tag)]

\* the assembly of the result from paginatedImageResult and img2Tags
Assemble(p, imgTags) ==
    LET img2Tags == Img2Tags(imgTags, Len(imgTags))
    IN  [total |-> p.total,
         page |-> p.page,
         pageSize |-> p.pageSize,
         data |-> [k \in 1..Len(p.data) |->
                     [id |-> p.data[k], tags |-> img2Tags[p.data[k]]]]]

\* the whole call on one store state
getPaginatedTaggedImagesWithTags(q) ==
    IF Len(q.tagIDs) = 0
    THEN getPaginatedUntaggedTaggedImages(q)
    ELSE LET p == getPaginatedImagesWithTags(q)
         IN  Assemble(p, EnrichmentQuery(p.data))

\* one store call of the query: this.db.all(sql), resolved or rejected
StoreCall(stmt, ids, ok) == [stmt |-> stmt, ids |-> ids, ok |-> ok]

\* const imageIDs = paginatedImageResult.data.map((i) => i.id)
imageIDs(p) == p.data

\* the enrichment as one fetch per image of the page
EnrichCalls_PerImage(p, ok) ==
    [k \in 1..Len(p.data) |-> StoreCall("enrich", <<p.data[k]>>, ok)]

\* the enrichment: one this.db.all(sql) with image_id in (imageIDs)
EnrichCalls(p, ok) == <<StoreCall("enrich", imageIDs(p), ok)>>

\* the store calls of the whole call, all resolved
StoreCalls(q) ==
    IF Len(q.tagIDs) = 0
    THEN <<StoreCall("untagged", <<>>, TRUE)>>
    ELSE <<StoreCall("filter", <<>>, TRUE)>>
            \o EnrichCalls(getPaginatedImagesWithTags(q), TRUE)

(* ----------------------- the mutation statements ----------------------- *)

\* INSERT INTO images (src, width, height) VALUES(?, ?, ?)
createImage ==
    /\ lastImageID < MaxImages
    /\ lastImageID' = lastImageID + 1
    /\ images' = images \cup {lastImageID + 1}
    /\ UNCHANGED <<tags, image_tags, lastTagID>>

\* the insert as INSERT OR REPLACE: a tag of that name is replaced by a new row
createTag_InsertOrReplace(name) ==
    /\ lastTagID < MaxTags
    /\ lastTagID' = lastTagID + 1
    /\ tags' = {t \in tags : t.name # name}
                  \cup {[id |-> lastTagID + 1, name |-> name]}
    /\ UNCHANGED <<images, image_tags, lastImageID>>

\* INSERT INTO tags(name) VALUES(?) ON CONFLICT("name") DO NOTHING
createTag(name) ==
    /\ IF getTagByName(name) # {}
       THEN UNCHANGED <<tags, lastTagID>>
       ELSE /\ lastTagID < MaxTags
            /\ lastTagID' = lastTagID + 1
            /\ tags' = tags \cup {[id |-> lastTagID + 1, name |-> name]}
    /\ UNCHANGED <<images, image_tags, lastImageID>>

\* the rename done as DELETE of the tag and INSERT of a tag with the new name
\* under the old id, on a store that drops the rows of a deleted tag
renameTag_DropsRows(tagID, newName) ==
    /\ tags' = IF \E t \in tags : t.id # tagID /\ t.name = newName
               THEN tags
               ELSE {IF t.id = tagID THEN [t EXCEPT !.name = newName] ELSE t :
                        t \in tags}
    /\ image_tags' = IF \E t \in tags : t.id # tagID /\ t.name = newName
                     THEN image_tags
                     ELSE {r \in image_tags : r[2] # tagID}
    /\ UNCHANGED <<images, lastImageID, lastTagID>>

\* UPDATE tags SET name = ? WHERE id = ?
\* No row changes when no tag has the id; the statement fails, changing
\* nothing, when another tag already has the name (tags.name is unique).
renameTag(tagID, newName) ==
    /\ tags' = IF \E t \in tags : t.id # tagID /\ t.name = newName
               THEN tags
               ELSE {IF t.id = tagID THEN [t EXCEPT !.name = newName] ELSE t :
                        t \in tags}
    /\ UNCHANGED <<images, image_tags, lastImageID, lastTagID>>

\* the pair (image_id, tag_id) is unique in image_tags: an UPDATE that would
\* give an image the same tag twice fails and changes nothing
ReplaceConflict(rows, replaceTagID, withTagID) ==
    /\ replaceTagID # withTagID
    /\ \E i \in ImageIds : <<i, replaceTagID>> \in rows /\ <<i, withTagID>> \in rows

\* UPDATE image_tags SET tag_id = ? where tag_id = ?
ReplaceRows(rows, replaceTagID, withTagID) ==
    IF ReplaceConflict(rows, replaceTagID, withTagID)
    THEN rows
    ELSE {IF r[2] = replaceTagID THEN <<r[1], withTagID>> ELSE r : r \in rows}

replaceTag(replaceTagID, withTagID) ==
    /\ image_tags' = ReplaceRows(image_tags, replaceTagID, withTagID)
    /\ UNCHANGED <<images, tags, lastImageID, lastTagID>>

\* what DELETE FROM tags WHERE id = ? leaves of image_tags: the rows of the
\* tag go with it only on a connection that enforces foreign keys
CascadeRows(rows, tagID) ==
    IF foreign_keys THEN {r \in rows : r[2] # tagID} ELSE rows

\* DELETE FROM tags WHERE id = ?
deleteTag(tagID) ==
    /\ tags' = {t \in tags : t.id # tagID}
    /\ image_tags' = CascadeRows(image_tags, tagID)
    /\ UNCHANGED <<images, lastImageID, lastTagID>>

\* mergeTags without its replaceTag: only deleteTag(tagID2Delete) runs
mergeTags_DeleteOnly(tagID2Delete, tagID2Keep) ==
    IF ReplaceConflict(image_tags, tagID2Delete, tagID2Keep)
    THEN UNCHANGED <<images, tags, image_tags, lastImageID, lastTagID>>
    ELSE /\ tags' = {t \in tags : t.id # tagID2Delete}
         /\ image_tags' = CascadeRows(image_tags, tagID2Delete)
         /\ UNCHANGED <<images, lastImageID, lastTagID>>

\* await replaceTag(tagID2Delete, tagID2Keep); await deleteTag(tagID2Delete)
\* run to completion: a failing replaceTag throws before deleteTag runs
mergeTags(tagID2Delete, tagID2Keep) ==
    IF ReplaceConflict(image_tags, tagID2Delete, tagID2Keep)
    THEN UNCHANGED <<images, tags, image_tags, lastImageID, lastTagID>>
    ELSE /\ tags' = {t \in tags : t.id # tagID2Delete}
         /\ image_tags' =
               CascadeRows(ReplaceRows(image_tags, tagID2Delete, tagID2Keep),
                           tagID2Delete)
         /\ UNCHANGED <<images, lastImageID, lastTagID>>

\* updateImageTags: the sets computed from the first read
Before(imgID) == {t.id : t \in {x \in tags : <<imgID, x.id>> \in image_tags}}

ToDel(imgID, newTagIds) == Before(imgID) \ (Before(imgID) \cap newTagIds)

ToIns(imgID, newTagIds) == newTagIds \ (Before(imgID) \cap newTagIds)

\* DELETE FROM image_tags WHERE image_id = imgID AND tag_id IN (toDel)
DeleteRows(rows, imgID, toDel) ==
    {r \in rows : ~(r[1] = imgID /\ r[2] \in toDel)}

\* INSERT INTO image_tags(image_id, tag_id) VALUES (imgID, t), ...
\* fails, inserting nothing, when one of the pairs is already a row
InsertConflict(rows, imgID, toIns) ==
    \E t \in toIns : <<imgID, t>> \in rows

InsertRows(rows, imgID, toIns) ==
    IF InsertConflict(rows, imgID, toIns)
    THEN rows
    ELSE rows \cup {<<imgID, t>> : t \in toIns}

\* updateImageTags run to completion (newTagIds as the Set `after`)
updateImageTags(imgID, newTagIds) ==
    /\ image_tags' =
          InsertRows(DeleteRows(image_tags, imgID, ToDel(imgID, newTagIds)),
                     imgID, ToIns(imgID, newTagIds))
    /\ UNCHANGED <<images, tags, lastImageID, lastTagID>>

(* ------------------------- inputs of the calls ------------------------- *)

\* tag ids a caller passes: 0 stands for the non-positive ones
TagIdInputs == 0..MaxTags

\* tagIDs arrays of up to two elements, repeated ids included
TagIDLists ==
    {<<>>} \cup {<<a>> : a \in TagIdInputs}
           \cup {<<a, b>> : a \in TagIdInputs, b \in TagIdInputs}

Pages == 0..MaxPage

PageSizes == -1..MaxPageSize

Queries == [tagIDs : TagIDLists, page : Pages, pageSize : PageSizes]

\* the calls the contract admits: positive page and pageSize, positive tag
\* ids, no id twice. The ids are listed in ascending order: the filter query
\* reads the list only through IN (...) and its length.
WellFormedQueries ==
    {q \in Queries :
        /\ q.page >= 1
        /\ q.pageSize >= 1
        /\ \A k \in 1..Len(q.tagIDs) : q.tagIDs[k] >= 1
        /\ \A a, b \in 1..Len(q.tagIDs) : a < b => q.tagIDs[a] < q.tagIDs[b]}

NoQuery == [tagIDs |-> <<>>, page |-> 0, pageSize |-> 0]

NoResult == [total |-> 0, page |-> 0, pageSize |-> 0, data |-> <<>>]

\* no mutation call recorded
NoCall ==
    [op |-> "none", a |-> 0, b |-> 0, ids |-> {}, threw |-> FALSE,
     flag |-> FALSE, list |-> <<>>,
     before |-> [images |-> {}, tags |-> {}, image_tags |-> {}]]

\* a value a caller passes for page or pageSize: an integer n, the
\* non-integer number n + 1/2, or nothing (the parameter is left out)
Arg(kind, n) == [kind |-> kind, n |-> n]

Omitted == Arg("omitted", 0)

\* no paginated call of the Prisma controller in flight
NoPrismaCall ==
    [pc |-> "idle", method |-> "none", tagIDs |-> <<>>, sub |-> "",
     names |-> {},
     page |-> Omitted, pageSize |-> Omitted, pageNum |-> 0, numPerPage |-> 0,
     data |-> <<>>, total |-> 0, issued |-> 0, views |-> {}]

\* the two callers of updateImageTags
Updaters == {"u1", "u2"}

\* no updateImageTags call in flight
NoUpdate ==
    [pc |-> "idle", imgID |-> 0, newTagIds |-> {}, nan |-> FALSE,
     before |-> {},
     toDel |-> {}, toIns |-> {}, found |-> {}, solo |-> FALSE]

(* ------------------ handlers, one request at a time -------------------- *)

Init ==
    /\ images = {}
    /\ tags = {}
    /\ image_tags = {}
    /\ lastImageID = 0
    /\ lastTagID = 0
    /\ qpc = "idle"
    /\ query = NoQuery
    /\ pir = NoResult
    /\ result = NoResult
    /\ qviews = {}
    /\ qcalls = <<>>
    /\ ret = NoCall
    /\ pcall = NoPrismaCall
    /\ upd = [u \in Updaters |-> NoUpdate]

CreateImage ==
    /\ qpc = "idle"
    /\ createImage
    /\ UNCHANGED <<qvars, ret, aux>>

CreateTag ==
    /\ qpc = "idle"
    /\ \E name \in Names : createTag(name)
    /\ UNCHANGED <<qvars, ret, aux>>

RenameTag ==
    /\ qpc = "idle"
    /\ \E tagID \in TagIds, newName \in Names : renameTag(tagID, newName)
    /\ UNCHANGED <<qvars, ret, aux>>

ReplaceTag ==
    /\ qpc = "idle"
    /\ \E r \in TagIds, w \in TagIds : replaceTag(r, w)
    /\ UNCHANGED <<qvars, ret, aux>>

DeleteTag ==
    /\ qpc = "idle"
    /\ \E tagID \in TagIds : deleteTag(tagID)
    /\ UNCHANGED <<qvars, ret, aux>>

MergeTags ==
    /\ qpc = "idle"
    /\ \E d \in TagIds, k \in TagIds : mergeTags(d, k)
    /\ UNCHANGED <<qvars, ret, aux>>

\* the form of an image of the page posts the ids of tags it was offered
UpdateImageTags ==
    /\ qpc = "idle"
    /\ \E imgID \in images, newTagIds \in SUBSET (1..lastTagID) :
          updateImageTags(imgID, newTagIds)
    /\ UNCHANGED <<qvars, ret, aux>>

\* a query that also removes the rows of image_tags whose tag is gone
QueryFrame_PrunesRows ==
    /\ image_tags' = {r \in image_tags : \E t \in tags : t.id = r[2]}
    /\ UNCHANGED <<images, tags, lastImageID, lastTagID>>

\* the three query methods issue SELECT statements only
QueryFrame == UNCHANGED <<images, tags, image_tags, lastImageID, lastTagID>>

\* the call run to completion on a store nobody modifies meanwhile
RunQuery(q) ==
    /\ qpc = "idle"
    /\ query' = q
    /\ result' = getPaginatedTaggedImagesWithTags(q)
    /\ pir' = IF Len(q.tagIDs) = 0 THEN NoResult
              ELSE getPaginatedImagesWithTags(q)
    /\ qcalls' = StoreCalls(q)
    /\ qpc' = "done"
    /\ QueryFrame
    /\ UNCHANGED <<qviews, ret, aux>>

\* getPaginatedTaggedImagesWithTags called as its contract admits
Query == \E q \in WellFormedQueries : RunQuery(q)

\* getPaginatedTaggedImagesWithTags called with whatever the query string of
\* the request parses to
QueryAnyInput == \E q \in Queries : RunQuery(q)

\* the caller has taken the result, or the error
Return ==
    /\ qpc \in {"done", "failed"}
    /\ qpc' = "idle"
    /\ query' = NoQuery
    /\ pir' = NoResult
    /\ result' = NoResult
    /\ qviews' = {}
    /\ qcalls' = <<>>
    /\ UNCHANGED <<images, tags, image_tags, lastImageID, lastTagID, ret, aux>>

Next ==
    \/ CreateImage
    \/ CreateTag
    \/ RenameTag
    \/ ReplaceTag
    \/ DeleteTag
    \/ MergeTags
    \/ UpdateImageTags
    \/ Query
    \/ Return

Spec == Init /\ [][Next]_vars

\* the same handlers, the query taking any input
NextAnyInput ==
    \/ CreateImage
    \/ CreateTag
    \/ RenameTag
    \/ ReplaceTag
    \/ DeleteTag
    \/ MergeTags
    \/ UpdateImageTags
    \/ QueryAnyInput
    \/ Return

SpecAnyInput == Init /\ [][NextAnyInput]_vars

(* --------- the query interleaved with other requests' statements ------- *)

\* A statement of another request runs while the query call is idle or is
\* suspended between its two awaits.
CanInterleave ==
    /\ qpc # "done"
    /\ qpc = "filtered" => Cardinality(qviews) < MaxViews

\* The call itself is left where it is; qviews records the answer the call
\* would give if it ran, whole, on the store state the statement found.
Interleave ==
    /\ UNCHANGED <<qpc, query, pir, result, qcalls, ret, aux>>
    /\ qviews' = IF qpc = "filtered"
                 THEN qviews \cup {getPaginatedTaggedImagesWithTags(query)}
                 ELSE qviews

AsyncCreateImage ==
    /\ CanInterleave
    /\ createImage
    /\ Interleave

AsyncCreateTag ==
    /\ CanInterleave
    /\ \E name \in Names : createTag(name)
    /\ Interleave

AsyncRenameTag ==
    /\ CanInterleave
    /\ \E tagID \in TagIds, newName \in Names : renameTag(tagID, newName)
    /\ Interleave

AsyncReplaceTag ==
    /\ CanInterleave
    /\ \E r \in TagIds, w \in TagIds : replaceTag(r, w)
    /\ Interleave

AsyncDeleteTag ==
    /\ CanInterleave
    /\ \E tagID \in TagIds : deleteTag(tagID)
    /\ Interleave

AsyncUpdateImageTags ==
    /\ CanInterleave
    /\ \E imgID \in images, newTagIds \in SUBSET (1..lastTagID) :
          updateImageTags(imgID, newTagIds)
    /\ Interleave

\* tagIDs = []: the single query of getPaginatedUntaggedTaggedImages
QueryUntagged ==
    /\ qpc = "idle"
    /\ \E q \in WellFormedQueries :
          /\ Len(q.tagIDs) = 0
          /\ query' = q
          /\ result' = getPaginatedUntaggedTaggedImages(q)
          /\ qviews' = {}
    /\ qcalls' = <<StoreCall("untagged", <<>>, TRUE)>>
    /\ qpc' = "done"
    /\ QueryFrame
    /\ UNCHANGED <<pir, ret, aux>>

\* await this.getPaginatedImagesWithTags(query): the filter query
QueryFilter ==
    /\ qpc = "idle"
    /\ \E q \in WellFormedQueries :
          /\ Len(q.tagIDs) > 0
          /\ query' = q
          /\ pir' = getPaginatedImagesWithTags(q)
          /\ qviews' = {}
    /\ qcalls' = <<StoreCall("filter", <<>>, TRUE)>>
    /\ qpc' = "filtered"
    /\ QueryFrame
    /\ UNCHANGED <<result, ret, aux>>

\* await this.db.all(sql): the enrichment query, then the assembly
QueryEnrich ==
    /\ qpc = "filtered"
    /\ result' = Assemble(pir, EnrichmentQuery(imageIDs(pir)))
    /\ qcalls' = qcalls \o EnrichCalls(pir, TRUE)
    /\ qpc' = "done"
    /\ QueryFrame
    /\ UNCHANGED <<query, pir, qviews, ret, aux>>

NextAsync ==
    \/ AsyncCreateImage
    \/ AsyncCreateTag
    \/ AsyncRenameTag
    \/ AsyncReplaceTag
    \/ AsyncDeleteTag
    \/ AsyncUpdateImageTags
    \/ QueryUntagged
    \/ QueryFilter
    \/ QueryEnrich
    \/ Return

SpecAsync == Init /\ [][NextAsync]_vars

(* ------------- the stages of the query, with a failing store ----------- *)

\* tagIDs = []: the query of getPaginatedUntaggedTaggedImages is rejected;
\* the rejection leaves the call through its awaits
QueryUntaggedFails ==
    /\ qpc = "idle"
    /\ \E q \in WellFormedQueries :
          /\ Len(q.tagIDs) = 0
          /\ query' = q
    /\ qcalls' = <<StoreCall("untagged", <<>>, FALSE)>>
    /\ qpc' = "failed"
    /\ QueryFrame
    /\ UNCHANGED <<pir, result, qviews, ret, aux>>

\* the query of getPaginatedImagesWithTags is rejected
QueryFilterFails ==
    /\ qpc = "idle"
    /\ \E q \in WellFormedQueries :
          /\ Len(q.tagIDs) > 0
          /\ query' = q
    /\ qcalls' = <<StoreCall("filter", <<>>, FALSE)>>
    /\ qpc' = "failed"
    /\ QueryFrame
    /\ UNCHANGED <<pir, result, qviews, ret, aux>>

\* the enrichment query rejected and the rejection caught: the assembly runs
\* on no rows and the call returns
QueryEnrichFails_Swallowed ==
    /\ qpc = "filtered"
    /\ result' = Assemble(pir, <<>>)
    /\ qcalls' = qcalls \o EnrichCalls(pir, FALSE)
    /\ qpc' = "done"
    /\ QueryFrame
    /\ UNCHANGED <<query, pir, qviews, ret, aux>>

\* the enrichment query is rejected: nothing after the await runs
QueryEnrichFails ==
    /\ qpc = "filtered"
    /\ qcalls' = qcalls \o EnrichCalls(pir, FALSE)
    /\ qpc' = "failed"
    /\ QueryFrame
    /\ UNCHANGED <<query, pir, result, qviews, ret, aux>>

NextStages ==
    \/ CreateImage
    \/ CreateTag
    \/ RenameTag
    \/ ReplaceTag
    \/ DeleteTag
    \/ MergeTags
    \/ UpdateImageTags
    \/ QueryUntagged
    \/ QueryFilter
    \/ QueryEnrich
    \/ QueryUntaggedFails
    \/ QueryFilterFails
    \/ QueryEnrichFails
    \/ Return

SpecStages == Init /\ [][NextStages]_vars

(* --------------- the mutation calls and what they return -------------- *)

\* renameTag throws when res.changes is 0 (no tag has the id) and when the
\* UPDATE is rejected (another tag has the name)
renameTagThrows(tagID, newName) ==
    \/ getTagByID(tagID) = {}
    \/ \E t \in tags : t.id # tagID /\ t.name = newName

\* replaceTag rejects when the UPDATE is rejected
replaceTagThrows(replaceTagID, withTagID) ==
    ReplaceConflict(image_tags, replaceTagID, withTagID)

\* res.changes > 0: the UPDATE counts the rows WHERE tag_id = replaceTagID,
\* whether or not SET gives them another value
replaceTagReturns(replaceTagID, withTagID) ==
    \E r \in image_tags : r[2] = replaceTagID

\* res.changes > 0: the DELETE counts the rows of tags WHERE id = tagID
deleteTagReturns(tagID) == getTagByID(tagID) # {}

\* getTagsForImage read on the rows the statements of updateImageTags leave
TagsIn(rows, imgID) ==
    SortByName({t \in tags : <<imgID, t.id>> \in rows})

\* updateImageTags rejects when its INSERT is rejected; its DELETE always
\* finds the rows of toDel, which were read from the table
updateImageTagsThrows(imgID, newTagIds) ==
    InsertConflict(DeleteRows(image_tags, imgID, ToDel(imgID, newTagIds)),
                   imgID, ToIns(imgID, newTagIds))

\* return await this.getTagsForImage(imgID)
updateImageTagsReturns(imgID, newTagIds) ==
    TagsIn(InsertRows(DeleteRows(image_tags, imgID, ToDel(imgID, newTagIds)),
                      imgID, ToIns(imgID, newTagIds)),
           imgID)

\* const res = await this.getTagByName(name), read after the INSERT: the
\* tag that had the name, or else the row just inserted
createTagReturns(name) ==
    IF getTagByName(name) # {}
    THEN CHOOSE t \in tags : t.name = name
    ELSE [id |-> lastTagID + 1, name |-> name]

\* the record of a call: its arguments (a and b the ids or the name, ids the
\* array newTagIds as a set), whether it threw, what it returned (flag a
\* returned boolean, list a returned Tag[]), and the tables it found
Call(op, a, b, ids, threw, flag, list) ==
    [op |-> op, a |-> a, b |-> b, ids |-> ids, threw |-> threw,
     flag |-> flag, list |-> list,
     before |-> [images |-> images, tags |-> tags, image_tags |-> image_tags]]

CallCreateImage ==
    /\ createImage
    /\ ret' = Call("createImage", lastImageID + 1, 0, {}, FALSE, FALSE, <<>>)
    /\ UNCHANGED <<qvars, aux>>

CallCreateTag ==
    /\ \E name \in Names :
          /\ createTag(name)
          /\ ret' = Call("createTag", 0, name, {}, FALSE, FALSE,
                         <<createTagReturns(name)>>)
    /\ UNCHANGED <<qvars, aux>>

\* the names a rename may give: one more than the tags can hold, so that
\* with every tag present a name is still free
NewNames == 0..MaxTags

CallRenameTag ==
    /\ \E tagID \in TagIds, newName \in NewNames :
          /\ renameTag(tagID, newName)
          /\ ret' = Call("renameTag", tagID, newName, {},
                         renameTagThrows(tagID, newName), FALSE,
                         <<[id |-> tagID, name |-> newName]>>)
    /\ UNCHANGED <<qvars, aux>>

CallReplaceTag ==
    /\ \E r \in TagIds, w \in TagIds :
          /\ replaceTag(r, w)
          /\ ret' = Call("replaceTag", r, w, {}, replaceTagThrows(r, w),
                         replaceTagReturns(r, w), <<>>)
    /\ UNCHANGED <<qvars, aux>>

CallDeleteTag ==
    /\ \E tagID \in TagIds :
          /\ deleteTag(tagID)
          /\ ret' = Call("deleteTag", tagID, 0, {}, FALSE,
                         deleteTagReturns(tagID), <<>>)
    /\ UNCHANGED <<qvars, aux>>

CallMergeTags ==
    /\ \E d \in TagIds, k \in TagIds :
          /\ mergeTags(d, k)
          /\ ret' = Call("mergeTags", d, k, {}, replaceTagThrows(d, k),
                         FALSE, <<>>)
    /\ UNCHANGED <<qvars, aux>>

CallUpdateImageTags ==
    /\ \E imgID \in images, newTagIds \in SUBSET (1..lastTagID) :
          /\ updateImageTags(imgID, newTagIds)
          /\ ret' = Call("updateImageTags", imgID, 0, newTagIds,
                         updateImageTagsThrows(imgID, newTagIds), FALSE,
                         updateImageTagsReturns(imgID, newTagIds))
    /\ UNCHANGED <<qvars, aux>>

NextCalls ==
    \/ CallCreateImage
    \/ CallCreateTag
    \/ CallRenameTag
    \/ CallReplaceTag
    \/ CallDeleteTag
    \/ CallMergeTags
    \/ CallUpdateImageTags

SpecCalls == Init /\ [][NextCalls]_vars

(* ------ one renameTag or mergeTags call on a store built by any calls --- *)

\* no call has been recorded yet
Unobserved == ret = NoCall

SetupCreateImage == Unobserved /\ CreateImage

SetupCreateTag == Unobserved /\ CreateTag

SetupRenameTag == Unobserved /\ RenameTag

SetupReplaceTag == Unobserved /\ ReplaceTag

SetupDeleteTag == Unobserved /\ DeleteTag

SetupMergeTags == Unobserved /\ MergeTags

SetupUpdateImageTags == Unobserved /\ UpdateImageTags

ObserveRenameTag == Unobserved /\ CallRenameTag

ObserveMergeTags == Unobserved /\ CallMergeTags

ObserveCreateTag == Unobserved /\ CallCreateTag

NextTagCalls ==
    \/ SetupCreateImage
    \/ SetupCreateTag
    \/ SetupRenameTag
    \/ SetupReplaceTag
    \/ SetupDeleteTag
    \/ SetupMergeTags
    \/ SetupUpdateImageTags
    \/ ObserveRenameTag
    \/ ObserveMergeTags
    \/ ObserveCreateTag

SpecTagCalls == Init /\ [][NextTagCalls]_vars

(* ------------- one query on a store built by any calls ---------------- *)

\* the call for the first page: the other pages of its candidate list are
\* what the same call returns for the other page numbers
QueryFirstPage ==
    \E q \in WellFormedQueries : q.page = 1 /\ RunQuery(q)

\* the result of the query is looked at on the store it read
NextPages ==
    \/ SetupCreateImage
    \/ SetupCreateTag
    \/ SetupRenameTag
    \/ SetupReplaceTag
    \/ SetupDeleteTag
    \/ SetupMergeTags
    \/ SetupUpdateImageTags
    \/ QueryFirstPage

SpecPages == Init /\ [][NextPages]_vars

(* ------------- the Prisma controller: its paginated reads -------------- *)

\* The Prisma controller of src/app/database.ts keeps the tables Image, Tag
\* and _ImageToTag; they are modelled by images, tags and image_tags. The
\* connections Prisma opens to SQLite enforce the foreign keys of
\* _ImageToTag (ON DELETE CASCADE), so no row outlives its image or its tag.

DEFAULT_PAGE_NUMBER == 1

DEFAULT_PAGE_SIZE == 25

\* z.number().int().positive() accepts v
positiveInteger(v) == v.kind = "int" /\ v.n > 0

\* z.array(z.number().int().positive()).nonempty() accepts ids
nonEmptyArrayOfPositiveIntegers(ids) ==
    /\ Len(ids) > 0
    /\ \A k \in 1..Len(ids) : ids[k] > 0

\* z.string().nonempty() accepts the search term: "" is the empty string
nonEmptyString(sub) == sub # ""

\* a parameter declared as `v = d`: d when the caller leaves v out
Default(v, d) == IF v.kind = "omitted" THEN Arg("int", d) ELSE v

\* the validation that checks page only
validatePaginationParamsThrows_PageOnly(page, pageSize) ==
    ~positiveInteger(page)

\* schemas.positiveInteger.parse(page); schemas.positiveInteger.parse(pageSize)
validatePaginationParamsThrows(page, pageSize) ==
    \/ ~positiveInteger(page)
    \/ ~positiveInteger(pageSize)

\* the ids of a set of tag rows ORDER BY name ASC
TagIdsByName(tgs) ==
    [k \in 1..Cardinality(tgs) |-> SortByName(tgs)[k].id]

\* tags: { some: { id: tagID } }: a row of _ImageToTag joins the image to
\* the tag of that id
SomeTag(i, tagID) ==
    \E t \in tags : t.id = tagID /\ <<i, t.id>> \in image_tags

\* the where clause of getImagesWithTags as OR of its conditions
ImagesWithTagsWhere_AnyTag(i, tagIDs) ==
    \E k \in 1..Len(tagIDs) : SomeTag(i, tagIDs[k])

\* AND: validTags.map((tagID) => ({ tags: { some: { id: tagID } } }))
ImagesWithTagsWhere(i, tagIDs) ==
    \A k \in 1..Len(tagIDs) : SomeTag(i, tagIDs[k])

\* the rows a method's where clause selects, in the order of its orderBy
\* (images: no ORDER BY, the table is read in the order of its ids)
PrismaMatches(c) ==
    CASE c.method = "getAllTags" -> TagIdsByName(tags)
      [] c.method = "searchTags" ->
            TagIdsByName({t \in tags : t.name \in c.names})
      [] c.method = "getUntaggedImages" ->
            SortAsc({i \in images : ~\E t \in tags : SomeTag(i, t.id)})
      [] c.method = "getImagesWithTags" ->
            SortAsc({i \in images : ImagesWithTagsWhere(i, c.tagIDs)})
      [] OTHER -> <<>>

\* LIMIT take OFFSET skip over the selected rows
SkipTake(rows, skip, take) ==
    [k \in 1..Max0(0, Min0(take, Len(rows) - skip)) |-> rows[skip + k]]

\* findMany with the page number taken for the number of rows to skip
findMany_SkipIsPage(c) ==
    [c EXCEPT !.pc = "found",
              !.data = SkipTake(PrismaMatches(c), c.pageNum, c.numPerPage),
              !.issued = c.issued + 1]

\* model.findMany({where, skip: (pageNum - 1) * numPerPage, take: numPerPage})
findMany(c) ==
    [c EXCEPT !.pc = "found",
              !.data = SkipTake(PrismaMatches(c),
                                (c.pageNum - 1) * c.numPerPage, c.numPerPage),
              !.issued = c.issued + 1]

\* model.count({where}), and the return of getPaginated
count(c) ==
    [c EXCEPT !.pc = "done",
              !.total = Len(PrismaMatches(c)),
              !.issued = c.issued + 1]

\* getPaginated up to its first await: p and ps are the page and pageSize
\* it is given, page and pageSize what the caller of the method passed
getPaginated(method, tagIDs, sub, names, page, pageSize, p, ps) ==
    LET c == [NoPrismaCall EXCEPT !.method = method, !.tagIDs = tagIDs,
                                  !.sub = sub, !.names = names,
                                  !.page = page, !.pageSize = pageSize]
    IN  IF validatePaginationParamsThrows(p, ps)
        THEN [c EXCEPT !.pc = "threw"]
        ELSE [c EXCEPT !.pc = "validated", !.pageNum = p.n,
                       !.numPerPage = ps.n]

\* a method that throws before it reaches getPaginated
Rejected(method, tagIDs, sub, names, page, pageSize) ==
    [NoPrismaCall EXCEPT !.pc = "threw", !.method = method,
                         !.tagIDs = tagIDs, !.sub = sub, !.names = names,
                         !.page = page, !.pageSize = pageSize]

getAllTags(page, pageSize) ==
    getPaginated("getAllTags", <<>>, "", {}, page, pageSize,
                 Default(page, DEFAULT_PAGE_NUMBER),
                 Default(pageSize, DEFAULT_PAGE_SIZE))

\* sub is the search term, names the names that contain it
searchTags(sub, names, page, pageSize) ==
    IF ~nonEmptyString(sub)
    THEN Rejected("searchTags", <<>>, sub, names, page, pageSize)
    ELSE getPaginated("searchTags", <<>>, sub, names, page, pageSize,
                      Default(page, DEFAULT_PAGE_NUMBER),
                      Default(pageSize, DEFAULT_PAGE_SIZE))

getUntaggedImages(page, pageSize) ==
    getPaginated("getUntaggedImages", <<>>, "", {}, page, pageSize,
                 Default(page, DEFAULT_PAGE_NUMBER),
                 Default(pageSize, DEFAULT_PAGE_SIZE))

\* page = DEFAULT_PAGE_SIZE, pageSize = DEFAULT_PAGE_SIZE
getImagesWithTags(tagIDs, page, pageSize) ==
    IF ~nonEmptyArrayOfPositiveIntegers(tagIDs)
    THEN Rejected("getImagesWithTags", tagIDs, "", {}, page, pageSize)
    ELSE getPaginated("getImagesWithTags", tagIDs, "", {}, page, pageSize,
                      Default(page, DEFAULT_PAGE_SIZE),
                      Default(pageSize, DEFAULT_PAGE_SIZE))

\* the call run to completion on a store nobody modifies meanwhile
RunPaginated(c) == IF c.pc = "threw" THEN c ELSE count(findMany(c))

\* what a caller passes for page and for pageSize
PageArgs == {Omitted, Arg("frac", 1)} \cup {Arg("int", n) : n \in Pages}

PageSizeArgs ==
    {Omitted, Arg("frac", 1)} \cup {Arg("int", n) : n \in 0..MaxPageSize}

\* search terms: the empty one, a term every name contains and a term only
\* the first name contains
SearchTerms ==
    {[sub |-> "", names |-> Names]}
        \cup {[sub |-> "s", names |-> S] : S \in {Names, {Min(Names)}}}

\* the arguments of the calls that pass validation
ValidPageArgs == {Arg("int", n) : n \in 1..MaxPage}

ValidPageSizeArgs == {Arg("int", n) : n \in 1..MaxPageSize}

ValidTagIDLists ==
    {T \in TagIDLists :
        /\ nonEmptyArrayOfPositiveIntegers(T)
        /\ \A a, b \in 1..Len(T) : a < b => T[a] < T[b]}

\* tagIDs naming one tag
SingleTagLists == {<<t>> : t \in TagIds}

(* ------------------ the Prisma controller: its writes ------------------ *)

\* prisma.tag.delete({where: {id}}): the rows of the tag go with it
tagDelete(tagID) ==
    /\ tags' = {t \in tags : t.id # tagID}
    /\ image_tags' = {r \in image_tags : r[2] # tagID}
    /\ UNCHANGED <<images, lastImageID, lastTagID>>

\* prisma.image.delete({where: {id}}): the rows of the image go with it
imageDelete(imageID) ==
    /\ images' = images \ {imageID}
    /\ image_tags' = {r \in image_tags : r[1] # imageID}
    /\ UNCHANGED <<tags, lastImageID, lastTagID>>

\* prisma.image.update({where: {id}, data: {tags: {set: [...]}}}): the tags
\* of the image become those of the list; the update fails, changing
\* nothing, when the image or one of the tags does not exist
imageUpdateTags(imageID, newTagIDs) ==
    /\ image_tags' =
          IF imageID \in images /\ newTagIDs \subseteq {t.id : t \in tags}
          THEN {r \in image_tags : r[1] # imageID}
                  \cup {<<imageID, t>> : t \in newTagIDs}
          ELSE image_tags
    /\ UNCHANGED <<images, tags, lastImageID, lastTagID>>

\* migrateImageTag: every image with fromTagID is disconnected from it and
\* connected to toTagID, in one transaction that fails as a whole when
\* toTagID is no tag
migrateImageTag(fromTagID, toTagID) ==
    /\ image_tags' =
          IF \E t \in tags : t.id = toTagID
          THEN {r \in image_tags : r[2] # fromTagID}
                  \cup {<<r[1], toTagID>> :
                           r \in {x \in image_tags : x[2] = fromTagID}}
          ELSE image_tags
    /\ UNCHANGED <<images, tags, lastImageID, lastTagID>>

PrismaIdle == pcall.pc = "idle"

PrismaFrame == UNCHANGED <<qvars, ret, pcall, upd>>

PrismaCreateImage == PrismaIdle /\ createImage /\ PrismaFrame

\* prisma.tag.create: rejected when a tag has the name (Tag.name is unique)
PrismaCreateTag ==
    /\ PrismaIdle
    /\ \E name \in Names : createTag(name)
    /\ PrismaFrame

PrismaRenameTag ==
    /\ PrismaIdle
    /\ \E tagID \in TagIds, newName \in Names : renameTag(tagID, newName)
    /\ PrismaFrame

PrismaMigrateImageTag ==
    /\ PrismaIdle
    /\ \E f \in TagIds, t \in TagIds : migrateImageTag(f, t)
    /\ PrismaFrame

\* newTagIDs is validated as a non-empty array of positive integers
PrismaUpdateImageTags ==
    /\ PrismaIdle
    /\ \E imageID \in ImageIds, newTagIDs \in (SUBSET TagIds) \ {{}} :
          imageUpdateTags(imageID, newTagIDs)
    /\ PrismaFrame

PrismaDeleteImage ==
    /\ PrismaIdle
    /\ \E imageID \in ImageIds : imageDelete(imageID)
    /\ PrismaFrame

PrismaDeleteTag ==
    /\ PrismaIdle
    /\ \E tagID \in TagIds : tagDelete(tagID)
    /\ PrismaFrame

\* the paginated methods, each run to completion on a store built by the
\* writes; the store is not written while the result is looked at
PrismaReadFrame ==
    UNCHANGED <<images, tags, image_tags, lastImageID, lastTagID,
                qvars, ret, upd>>

GetAllTags ==
    /\ PrismaIdle
    /\ \E page \in PageArgs, pageSize \in PageSizeArgs :
          pcall' = RunPaginated(getAllTags(page, pageSize))
    /\ PrismaReadFrame

SearchTags ==
    /\ PrismaIdle
    /\ \E s \in SearchTerms, page \in PageArgs, pageSize \in PageSizeArgs :
          pcall' = RunPaginated(searchTags(s.sub, s.names, page, pageSize))
    /\ PrismaReadFrame

GetUntaggedImages ==
    /\ PrismaIdle
    /\ \E page \in PageArgs, pageSize \in PageSizeArgs :
          pcall' = RunPaginated(getUntaggedImages(page, pageSize))
    /\ PrismaReadFrame

GetImagesWithTags ==
    /\ PrismaIdle
    /\ \E tagIDs \in SingleTagLists, page \in PageArgs,
          pageSize \in PageSizeArgs :
          pcall' = RunPaginated(getImagesWithTags(tagIDs, page, pageSize))
    /\ PrismaReadFrame

\* getImagesWithTags with any tagIDs, page and pageSize being valid
FilterImagesWithTags ==
    /\ PrismaIdle
    /\ \E tagIDs \in TagIDLists, page \in ValidPageArgs,
          pageSize \in ValidPageSizeArgs :
          pcall' = RunPaginated(getImagesWithTags(tagIDs, page, pageSize))
    /\ PrismaReadFrame

\* the caller has taken the result, or the error
PrismaReturn ==
    /\ pcall.pc \in {"done", "threw"}
    /\ pcall' = NoPrismaCall
    /\ PrismaReadFrame

NextPrisma ==
    \/ PrismaCreateImage
    \/ PrismaCreateTag
    \/ PrismaRenameTag
    \/ PrismaMigrateImageTag
    \/ PrismaUpdateImageTags
    \/ PrismaDeleteImage
    \/ PrismaDeleteTag
    \/ GetAllTags
    \/ SearchTags
    \/ GetUntaggedImages
    \/ GetImagesWithTags

SpecPrisma == Init /\ [][NextPrisma]_vars

\* the same store, read by getImagesWithTags with any list of tag ids
NextPrismaFilter ==
    \/ PrismaCreateImage
    \/ PrismaCreateTag
    \/ PrismaRenameTag
    \/ PrismaMigrateImageTag
    \/ PrismaUpdateImageTags
    \/ PrismaDeleteImage
    \/ PrismaDeleteTag
    \/ FilterImagesWithTags

SpecPrismaFilter == Init /\ [][NextPrismaFilter]_vars

(* ----- a paginated read interleaved with other requests' statements ---- *)

\* The callback of this.prisma.$transaction(async (_tx) => ...) never uses
\* its transaction client _tx: findMany and count are called on `model`,
\* which is this.prisma.tag or this.prisma.image, so both run as statements
\* of the ordinary client, each on its own, outside the transaction.

\* what the call in flight would return if its two queries read the tables
\* as they are now
View(c) ==
    LET r == count(findMany(c))
    IN  [data |-> r.data, total |-> r.total]

\* a statement of another request runs while the call is idle or suspended
\* at one of its awaits
PrismaCanInterleave ==
    /\ pcall.pc \in {"idle", "validated", "found"}
    /\ pcall.pc # "idle" => Cardinality(pcall.views) < MaxViews

\* the call is left where it is; views records the answer on the tables the
\* statement found
PrismaInterleave ==
    /\ pcall' = IF pcall.pc = "idle" THEN pcall
                ELSE [pcall EXCEPT !.views = pcall.views \cup {View(pcall)}]
    /\ UNCHANGED <<qvars, ret, upd>>

AsyncPrismaCreateImage ==
    /\ PrismaCanInterleave
    /\ createImage
    /\ PrismaInterleave

AsyncPrismaCreateTag ==
    /\ PrismaCanInterleave
    /\ \E name \in Names : createTag(name)
    /\ PrismaInterleave

AsyncPrismaRenameTag ==
    /\ PrismaCanInterleave
    /\ \E tagID \in TagIds, newName \in Names : renameTag(tagID, newName)
    /\ PrismaInterleave

AsyncPrismaMigrateImageTag ==
    /\ PrismaCanInterleave
    /\ \E f \in TagIds, t \in TagIds : migrateImageTag(f, t)
    /\ PrismaInterleave

AsyncPrismaUpdateImageTags ==
    /\ PrismaCanInterleave
    /\ \E imageID \in ImageIds, newTagIDs \in (SUBSET TagIds) \ {{}} :
          imageUpdateTags(imageID, newTagIDs)
    /\ PrismaInterleave

AsyncPrismaDeleteImage ==
    /\ PrismaCanInterleave
    /\ \E imageID \in ImageIds : imageDelete(imageID)
    /\ PrismaInterleave

AsyncPrismaDeleteTag ==
    /\ PrismaCanInterleave
    /\ \E tagID \in TagIds : tagDelete(tagID)
    /\ PrismaInterleave

\* a paginated method, from its call to its first await
CallPaginated ==
    /\ PrismaIdle
    /\ \E page \in ValidPageArgs, pageSize \in ValidPageSizeArgs :
          \/ pcall' = getAllTags(page, pageSize)
          \/ \E S \in SUBSET Names :
                pcall' = searchTags("s", S, page, pageSize)
          \/ pcall' = getUntaggedImages(page, pageSize)
          \/ \E T \in ValidTagIDLists :
                pcall' = getImagesWithTags(T, page, pageSize)
    /\ PrismaReadFrame

\* const data = await model.findMany(...)
AwaitFindMany ==
    /\ pcall.pc = "validated"
    /\ pcall' = findMany(pcall)
    /\ PrismaReadFrame

\* const total = await model.count(...), and the return
AwaitCount ==
    /\ pcall.pc = "found"
    /\ pcall' = count(pcall)
    /\ PrismaReadFrame

NextPrismaAsync ==
    \/ AsyncPrismaCreateImage
    \/ AsyncPrismaCreateTag
    \/ AsyncPrismaRenameTag
    \/ AsyncPrismaMigrateImageTag
    \/ AsyncPrismaUpdateImageTags
    \/ AsyncPrismaDeleteImage
    \/ AsyncPrismaDeleteTag
    \/ CallPaginated
    \/ AwaitFindMany
    \/ AwaitCount
    \/ PrismaReturn

SpecPrismaAsync == Init /\ [][NextPrismaAsync]_vars

(* ---------- updateImageTags statement by statement, two callers -------- *)

\* The action of routes/images.tsx parses the posted field tagIDs with
\* .toString().split(",").map((i) => parseInt(i, 10)): a form posted with no
\* tag gives [NaN]. nan says that newTagIds holds NaN besides the ids of
\* newTagIds.

Other(u) == Updaters \ {u}

\* the statement of toIns is rejected: a pair is already a row, or the text
\* of the statement holds NaN, which is no value of SQL
InsertRejected(c) ==
    c.nan \/ InsertConflict(image_tags, c.imgID, c.toIns)

\* where the call goes after its DELETE, or after skipping it
AfterDelete(c) ==
    IF c.toIns # {} \/ c.nan THEN "ins" ELSE "readback"

\* const before = new Set((await this.getTagsForImage(imgID)).map(...)), and
\* toDel and toIns computed from it; found is the history of the rows the
\* call found, solo whether no other call is in flight
UpdRead(u) ==
    /\ upd[u].pc = "idle"
    /\ \E imgID \in images, newTagIds \in SUBSET (1..lastTagID),
          nan \in BOOLEAN :
          upd' = [v \in Updaters |->
                    IF v = u
                    THEN [pc |-> IF ToDel(imgID, newTagIds) # {} THEN "del"
                                 ELSE IF ToIns(imgID, newTagIds) # {} \/ nan
                                      THEN "ins" ELSE "readback",
                          imgID |-> imgID,
                          newTagIds |-> newTagIds,
                          nan |-> nan,
                          before |-> Before(imgID),
                          toDel |-> ToDel(imgID, newTagIds),
                          toIns |-> ToIns(imgID, newTagIds),
                          found |-> {r[2] : r \in {x \in image_tags :
                                                       x[1] = imgID}},
                          solo |-> \A w \in Other(u) : upd[w].pc = "idle"]
                    ELSE [upd[v] EXCEPT !.solo = FALSE]]
    /\ UNCHANGED <<images, tags, image_tags, lastImageID, lastTagID,
                   qvars, ret, pcall>>

\* if (toDel.length) { res = await this.db.run(delSql);
\*                     if (!res.changes) throw ... }
UpdDelete(u) ==
    /\ upd[u].pc = "del"
    /\ image_tags' = DeleteRows(image_tags, upd[u].imgID, upd[u].toDel)
    /\ upd' = [upd EXCEPT ![u].pc =
                  IF DeleteRows(image_tags, upd[u].imgID, upd[u].toDel)
                        = image_tags
                  THEN "threw" ELSE AfterDelete(upd[u])]
    /\ UNCHANGED <<images, tags, lastImageID, lastTagID, qvars, ret, pcall>>

\* if (toIns.length) { res = await this.db.run(insSql);
\*                     if (!res.changes) throw ... }
UpdInsert(u) ==
    /\ upd[u].pc = "ins"
    /\ image_tags' = IF InsertRejected(upd[u]) THEN image_tags
                     ELSE InsertRows(image_tags, upd[u].imgID, upd[u].toIns)
    /\ upd' = [upd EXCEPT ![u].pc =
                  IF InsertRejected(upd[u]) THEN "threw" ELSE "readback"]
    /\ UNCHANGED <<images, tags, lastImageID, lastTagID, qvars, ret, pcall>>

\* return await this.getTagsForImage(imgID)
UpdReadBack(u) ==
    /\ upd[u].pc = "readback"
    /\ upd' = [upd EXCEPT ![u].pc = "returned"]
    /\ UNCHANGED <<images, tags, image_tags, lastImageID, lastTagID,
                   qvars, ret, pcall>>

\* the caller has taken what the call returned or threw
UpdReturn(u) ==
    /\ upd[u].pc \in {"returned", "threw"}
    /\ upd' = [upd EXCEPT ![u] = NoUpdate]
    /\ UNCHANGED <<images, tags, image_tags, lastImageID, lastTagID,
                   qvars, ret, pcall>>

UpdaterRead == \E u \in Updaters : UpdRead(u)

UpdaterDelete == \E u \in Updaters : UpdDelete(u)

UpdaterInsert == \E u \in Updaters : UpdInsert(u)

UpdaterReadBack == \E u \in Updaters : UpdReadBack(u)

UpdaterReturn == \E u \in Updaters : UpdReturn(u)

NextUpdaters ==
    \/ CreateImage
    \/ CreateTag
    \/ UpdaterRead
    \/ UpdaterDelete
    \/ UpdaterInsert
    \/ UpdaterReadBack
    \/ UpdaterReturn

SpecUpdaters == Init /\ [][NextUpdaters]_vars

(* ------------------ the Paginator over a query result ------------------ *)

\* Paginator(props) is rendered, by PaginatedResults, from the page,
\* pageSize and total of the result the loader of /images returned; r is
\* that result. Its links lead to /images with the search parameter page
\* set, i.e. to the same query for another page.

\* const start = (page - 1) * pageSize + 1
PaginatorStart(r) == (r.page - 1) * r.pageSize + 1

\* let end = start + pageSize; if (end > total) { end = total }
PaginatorEnd(r) ==
    IF PaginatorStart(r) + r.pageSize > r.total
    THEN r.total
    ELSE PaginatorStart(r) + r.pageSize

\* let numPages = Math.floor(total / pageSize)
\* if ((numPages * pageSize) < total) { numPages += 1 }
PaginatorNumPages(r) ==
    IF (r.total \div r.pageSize) * r.pageSize < r.total
    THEN (r.total \div r.pageSize) + 1
    ELSE r.total \div r.pageSize

\* page - 1 === 0 ? <button disabled> : <Link search: page - 1>
PreviousDisabled(r) == r.page - 1 = 0

PreviousTarget(r) == r.page - 1

\* page === numPages ? <button disabled> : <Link search: numPages>
NextDisabled(r) == r.page = PaginatorNumPages(r)

NextTarget(r) == PaginatorNumPages(r)

\* the loader of /images run for the page a link names, with the tags and
\* the pageSize of the current URL
FollowLink(target) ==
    /\ qpc = "done"
    /\ query' = [query EXCEPT !.page = target]
    /\ result' = getPaginatedTaggedImagesWithTags([query EXCEPT !.page = target])
    /\ pir' = IF Len(query.tagIDs) = 0 THEN NoResult
              ELSE getPaginatedImagesWithTags([query EXCEPT !.page = target])
    /\ qcalls' = StoreCalls([query EXCEPT !.page = target])
    /\ QueryFrame
    /\ UNCHANGED <<qpc, qviews, ret, aux>>

\* (on a page below 1, which Next leads to when nothing matches, Previous
\* leads further down: followed here down to page -MaxPage)
FollowPrevious ==
    /\ qpc = "done"
    /\ ~PreviousDisabled(result)
    /\ PreviousTarget(result) >= 0 - MaxPage
    /\ FollowLink(PreviousTarget(result))

FollowNext ==
    /\ qpc = "done"
    /\ ~NextDisabled(result)
    /\ FollowLink(NextTarget(result))

\* one of the numbered links: pages 1..numPages, the current one disabled
FollowPageNumber ==
    /\ qpc = "done"
    /\ \E pageNum \in 1..PaginatorNumPages(result) :
          /\ pageNum # result.page
          /\ FollowLink(pageNum)

NextPaginator ==
    \/ CreateImage
    \/ CreateTag
    \/ RenameTag
    \/ ReplaceTag
    \/ DeleteTag
    \/ MergeTags
    \/ UpdateImageTags
    \/ Query
    \/ FollowPrevious
    \/ FollowNext
    \/ FollowPageNumber
    \/ Return

SpecPaginator == Init /\ [][NextPaginator]_vars

(* ------------------- vocabulary of the properties --------------------- *)

\* image i is associated with tag id t: the association table has the row
Associated(i, t) == <<i, t>> \in image_tags

\* the images associated with every tag of T
HasAllTags(T) == {i \in images : \A t \in Range(T) : Associated(i, t)}

\* the images with zero rows in the association table
ZeroRows == {i \in images : Cardinality({r \in image_tags : r[1] = i}) = 0}

NoDuplicates(T) == \A a, b \in 1..Len(T) : T[a] = T[b] => a = b

\* the candidate set of a well-formed call: the untagged images, or the
\* images carrying every queried tag
CandidateSet(q) ==
    IF Len(q.tagIDs) = 0 THEN ZeroRows ELSE HasAllTags(q.tagIDs)

\* the call with another page and page size
OtherPage(q) == [q EXCEPT !.page = MaxPage, !.pageSize = 1]

\* the total the store query of the call reports
StoreTotal(q) ==
    IF Len(q.tagIDs) = 0
    THEN getPaginatedUntaggedTaggedImages(q).total
    ELSE getPaginatedImagesWithTags(q).total

\* the image ids of a result's data, in order
DataIds(r) == [k \in 1..Len(r.data) |-> r.data[k].id]

Offset(q) == (q.page - 1) * q.pageSize

\* the tag ids of the rows of an image in a table of rows
TagIdsOf(rows, i) == {r[2] : r \in {x \in rows : x[1] = i}}

\* the last mutation call was op and returned
Returned(op) == ret.op = op /\ ~ret.threw

TaggedDone == qpc = "done" /\ Len(query.tagIDs) > 0

UntaggedDone == qpc = "done" /\ Len(query.tagIDs) = 0

(* ------------------------------- claims -------------------------------- *)

\* C1: for a non-empty, duplicate-free list T of tag ids the candidate set of
\* getPaginatedImagesWithTags is exactly the set of images associated with
\* every tag of T: on every store state (seen between calls) for every such
\* T, and for the call made: its total counts that set and its data lies
\* within it.
C1_CandidatesHaveAllTags ==
    /\ qpc = "idle" =>
          \A T \in TagIDLists :
             Len(T) > 0 /\ NoDuplicates(T) =>
                Range(TaggedMatches(T)) = HasAllTags(T)
    /\ TaggedDone /\ NoDuplicates(query.tagIDs) =>
          /\ pir.total = Cardinality(HasAllTags(query.tagIDs))
          /\ Range(pir.data) \subseteq HasAllTags(query.tagIDs)

\* a call for two tags returned an image while another image carries only
\* one of the two
C1_Witness ==
    /\ TaggedDone
    /\ Len(query.tagIDs) = 2
    /\ NoDuplicates(query.tagIDs)
    /\ Len(pir.data) > 0
    /\ \E i \in images :
          /\ i \notin HasAllTags(query.tagIDs)
          /\ \E t \in Range(query.tagIDs) : Associated(i, t)

\* C2: with tagIDs = [] the candidate set is exactly the images with zero
\* rows in the association table (an image whose only rows point to tags
\* that are gone is not one of them), and every returned record has tags = [].
C2_UntaggedAreZeroRows ==
    UntaggedDone =>
       /\ result.total = Cardinality(ZeroRows)
       /\ Range(DataIds(result)) \subseteq ZeroRows
       /\ (query.page = 1 /\ query.pageSize >= result.total =>
              Range(DataIds(result)) = ZeroRows)
       /\ \A k \in 1..Len(result.data) : result.data[k].tags = <<>>

\* an untagged call returned an image while another image has rows, none of
\* them to a tag that exists
C2_Witness ==
    /\ UntaggedDone
    /\ Len(result.data) > 0
    /\ \E i \in images :
          /\ i \notin ZeroRows
          /\ getTagsForImage(i) = <<>>

\* C3: on a store not modified during the call, every returned TaggedImage
\* carries exactly the tags currently associated with the image (all of them,
\* what getTagsForImage reads), in strictly ascending name order.
C3_TagsCompleteAndSorted ==
    qpc = "done" =>
       \A k \in 1..Len(result.data) :
          LET img == result.data[k] IN
          /\ Range(img.tags) = {t \in tags : Associated(img.id, t.id)}
          /\ \A a, b \in 1..Len(img.tags) :
                a < b => img.tags[a].name < img.tags[b].name
          /\ img.tags = getTagsForImage(img.id)

\* a call for one tag returned an image with two tags whose name order is the
\* reverse of their id order
C3_Witness ==
    /\ TaggedDone
    /\ Len(query.tagIDs) = 1
    /\ \E k \in 1..Len(result.data) :
          /\ Len(result.data[k].tags) = 2
          /\ result.data[k].tags[1].id > result.data[k].tags[2].id

\* C4: for positive page and pageSize, data is the contiguous sub-sequence of
\* the candidate list (ascending image id) from offset (page-1)*pageSize of
\* length min(pageSize, max(0, total - offset)), in that order, each image
\* once.
C4_PageIsContiguousSlice ==
    qpc = "done" /\ query.page >= 1 /\ query.pageSize >= 1 =>
       LET n == Min0(query.pageSize, Max0(0, result.total - Offset(query)))
       IN  /\ Len(result.data) = n
           /\ DataIds(result) =
                 SubSeq(SortAsc(CandidateSet(query)),
                        Offset(query) + 1, Offset(query) + n)
           /\ \A a, b \in 1..Len(result.data) :
                 a < b => result.data[a].id < result.data[b].id

\* the second of two pages
C4_Witness ==
    /\ qpc = "done"
    /\ query.page = 2
    /\ query.pageSize = 1
    /\ result.total = 2
    /\ Len(result.data) = 1
    /\ result.data[1].id = 2

\* C5: for a fixed store state and fixed tagIDs the total is the size of the
\* full candidate set and is what a call for another page and pageSize
\* reports, on the tagged and on the untagged path.
C5_TotalIndependentOfPage ==
    qpc = "done" =>
       /\ result.total = Cardinality(CandidateSet(query))
       /\ result.total = StoreTotal(OtherPage(query))

\* a tagged call whose page holds some but not all of the candidates
C5_Witness ==
    /\ TaggedDone
    /\ Len(result.data) >= 1
    /\ result.total > Len(result.data)

\* C6: every result satisfies 0 <= data.length <= pageSize and total >= 0,
\* and data is empty whenever total = 0.
C6_PageWithinPageSize ==
    qpc = "done" =>
       /\ 0 <= Len(result.data)
       /\ Len(result.data) <= result.pageSize
       /\ result.total >= 0
       /\ (result.total = 0 => result.data = <<>>)

\* C7: for positive page and pageSize, when (page-1)*pageSize >= total the
\* call returns data = [] with the correct total (on the tagged path the
\* enrichment query is given an empty id list), and with page = 1 and a
\* pageSize above the candidate count data holds every candidate, no more.
C7_PageBeyondEndIsEmpty ==
    qpc = "done" /\ query.page >= 1 /\ query.pageSize >= 1 =>
       /\ (Offset(query) >= result.total =>
              /\ result.data = <<>>
              /\ result.total = Cardinality(CandidateSet(query)))
       /\ (query.page = 1 /\ query.pageSize > Cardinality(CandidateSet(query)) =>
              /\ Range(DataIds(result)) = CandidateSet(query)
              /\ Len(result.data) = Cardinality(CandidateSet(query)))

\* a tagged call past the last page of a non-empty candidate set
C7_Witness ==
    /\ TaggedDone
    /\ query.page >= 1
    /\ query.pageSize >= 1
    /\ result.total > 0
    /\ Offset(query) >= result.total
    /\ pir.data = <<>>

\* C8: the call returns no result when page <= 0, pageSize <= 0 or a tag id
\* is <= 0.
C8_NonPositiveInputRejected ==
    ~(/\ qpc = "done"
      /\ \/ query.page <= 0
         \/ query.pageSize <= 0
         \/ \E k \in 1..Len(query.tagIDs) : query.tagIDs[k] <= 0)

\* C9: the call returns no result when tagIDs holds the same id twice (here
\* with everything else about the call well formed).
C9_DuplicateIdsRejected ==
    ~(/\ qpc = "done"
      /\ ~NoDuplicates(query.tagIDs)
      /\ \A k \in 1..Len(query.tagIDs) : query.tagIDs[k] >= 1
      /\ query.page >= 1
      /\ query.pageSize >= 1)

\* C10: a tagged call interleaved with mutations returns what the call would
\* return on one single store state, one of those the store went through
\* between the filter query and the enrichment query (qviews holds the
\* answers on the earlier ones, the store is still the last one).
C10_ResultFromOneStoreState ==
    qpc = "done" =>
       \/ result \in qviews
       \/ result = getPaginatedTaggedImagesWithTags(query)

\* C11: a rejected store call is the last thing the call does: it is the
\* last entry of the log (no later stage, no second attempt of any stage),
\* the call ends failed and hands no result object to the caller; a call
\* that returned saw every store call resolve.
C11_StoreFailureEndsTheCall ==
    /\ \A k \in 1..Len(qcalls) :
          ~qcalls[k].ok => k = Len(qcalls) /\ qpc = "failed"
    /\ \A a, b \in 1..Len(qcalls) : a < b => qcalls[a].stmt # qcalls[b].stmt
    /\ qpc = "failed" =>
          /\ Len(qcalls) >= 1
          /\ ~qcalls[Len(qcalls)].ok
          /\ result = NoResult
    /\ qpc = "done" => \A k \in 1..Len(qcalls) : qcalls[k].ok

\* the enrichment query of a non-empty page was rejected
C11_Witness ==
    /\ qpc = "failed"
    /\ Len(qcalls) = 2
    /\ qcalls[2].stmt = "enrich"
    /\ Len(pir.data) > 0

\* C12: a tagged call returns no result when the enrichment join has no row
\* for an image of its page.
C12_EmptyJoinIsInconsistent ==
    ~(/\ TaggedDone
      /\ \E k \in 1..Len(pir.data) : JoinRows(<<pir.data[k]>>) = {})

\* C13: one call issues 1 store query on the untagged path and 2 on the
\* tagged path (1 while the enrichment is still to come), never more than 3,
\* however many images match; the enrichment query is given the image ids
\* of the current page, in order, and no other id.
C13_BoundedStoreQueries ==
    /\ Len(qcalls) <= 3
    /\ UntaggedDone => Len(qcalls) = 1
    /\ TaggedDone => Len(qcalls) = 2
    /\ qpc = "filtered" => Len(qcalls) = 1
    /\ \A k \in 1..Len(qcalls) :
          qcalls[k].stmt = "enrich" =>
             /\ qcalls[k].ids =
                   getPage(SortAsc(CandidateSet(query)),
                           query.page, query.pageSize)
             /\ Len(qcalls[k].ids) <= query.pageSize

\* a tagged call whose page holds one of two matching images
C13_Witness ==
    /\ TaggedDone
    /\ pir.total = 2
    /\ qcalls[2].stmt = "enrich"
    /\ Len(qcalls[2].ids) = 1

\* C14: every step of a query call (its start, each of its stages, resolved
\* or rejected) leaves the tables images, tags and image_tags, and the id
\* counters, as they were.
C14_QueriesLeaveTheStoreUnchanged ==
    [][(qpc # "idle" \/ qpc' # "idle") =>
          UNCHANGED <<images, tags, image_tags, lastImageID, lastTagID>>]_vars

\* a call that failed at its first store query, on a store with a row whose
\* tag is gone
C14_Witness ==
    /\ qpc = "failed"
    /\ Len(qcalls) = 1
    /\ \E r \in image_tags : \A t \in tags : t.id # r[2]

\* C15: no row of image_tags refers to an image or to a tag that does not
\* exist (rows are a set, so no pair is there twice).
C15_NoDanglingAssociation ==
    \A r \in image_tags :
       /\ r[1] \in images
       /\ \E t \in tags : t.id = r[2]

\* C16: after deleteTag(t) no row of image_tags has tag_id = t, the rows of
\* other tags are those found, an image whose only tag was t is returned by
\* the untagged query, and the call returns true iff a tag row had the id.
C16_DeleteTagDisassociates ==
    Returned("deleteTag") =>
       /\ \A r \in image_tags : r[2] # ret.a
       /\ image_tags = {r \in ret.before.image_tags : r[2] # ret.a}
       /\ \A i \in images :
             TagIdsOf(ret.before.image_tags, i) = {ret.a} =>
                i \in Range(UntaggedMatches)
       /\ ret.flag = (\E t \in ret.before.tags : t.id = ret.a)

\* C17: renameTag(tagID, newName) that returns found a tag with the id and
\* changed its name only: same tag ids, every other tag as found, images and
\* image_tags as found, so every candidate set is as before; a call that
\* throws leaves the store as found, and it throws when no tag has the id.
C17_RenameTagChangesOnlyTheName ==
    ret.op = "renameTag" =>
       /\ images = ret.before.images
       /\ image_tags = ret.before.image_tags
       /\ {t.id : t \in tags} = {t.id : t \in ret.before.tags}
       /\ \A t \in ret.before.tags : t.id # ret.a => t \in tags
       /\ ret.threw => tags = ret.before.tags
       /\ (\A t \in ret.before.tags : t.id # ret.a) => ret.threw
       /\ ~ret.threw =>
             /\ [id |-> ret.a, name |-> ret.b] \in tags
             /\ ret.list = <<[id |-> ret.a, name |-> ret.b]>>
             /\ Cardinality(tags) = Cardinality(ret.before.tags)

\* a tag carried by an image got another name while another tag exists
C17_Witness ==
    /\ Returned("renameTag")
    /\ [id |-> ret.a, name |-> ret.b] \notin ret.before.tags
    /\ Cardinality(tags) = 2
    /\ \E r \in image_tags : r[2] = ret.a

\* C18: after updateImageTags(imgID, newTagIds) returns, newTagIds being ids
\* of tags that exist, the tag ids of the rows of imgID are the ids of
\* newTagIds, the rows of every other image are as found, and the returned
\* list is the image's tags sorted by name.
C18_UpdateImageTagsSetsTheTags ==
    Returned("updateImageTags") /\ ret.ids \subseteq {t.id : t \in tags} =>
       /\ TagIdsOf(image_tags, ret.a) = ret.ids
       /\ \A i \in ImageIds :
             i # ret.a =>
                TagIdsOf(image_tags, i) = TagIdsOf(ret.before.image_tags, i)
       /\ ret.list = getTagsForImage(ret.a)
       /\ {t.id : t \in Range(ret.list)} = ret.ids

C20_ReplaceTagRetags ==
    Returned("replaceTag") =>
       /\ \A x \in image_tags : x[2] # ret.a
       /\ \A i \in ImageIds :
             <<i, ret.a>> \in ret.before.image_tags => <<i, ret.b>> \in image_tags
       /\ {x \in ret.before.image_tags : x[2] # ret.a} \subseteq image_tags
       /\ ret.flag = (image_tags # ret.before.image_tags)

\* C21: no two tags share a name (nor an id); createTag(name) for a name
\* that exists leaves the tags as found and returns the tag that had the
\* name, with its id; for a new name it adds exactly one tag, of that name
\* and with an id no tag had, and returns it; images and image_tags are as
\* found.
C21_CreateTagIdempotent ==
    /\ \A s, t \in tags : (s.name = t.name \/ s.id = t.id) => s = t
    /\ ret.op = "createTag" =>
          LET old == {t \in ret.before.tags : t.name = ret.b} IN
          /\ ~ret.threw
          /\ Len(ret.list) = 1
          /\ ret.list[1].name = ret.b
          /\ ret.list[1] \in tags
          /\ images = ret.before.images
          /\ image_tags = ret.before.image_tags
          /\ old # {} =>
                /\ tags = ret.before.tags
                /\ ret.list[1] \in old
          /\ old = {} =>
                /\ tags = ret.before.tags \cup {ret.list[1]}
                /\ Cardinality(tags) = Cardinality(ret.before.tags) + 1
                /\ \A t \in ret.before.tags : t.id # ret.list[1].id

\* createTag for the name of the first of two tags
C21_Witness ==
    /\ ret.op = "createTag"
    /\ Cardinality(ret.before.tags) = 2
    /\ ret.list = <<[id |-> 1, name |-> ret.b]>>
    /\ [id |-> 1, name |-> ret.b] \in ret.before.tags

\* C22: the data and the total a paginated method of the Prisma controller
\* returns are what its two queries read on one state of the tables: one of
\* those the tables went through during the call (views holds the answers
\* on the earlier ones, the tables are still the last one).
C22_DataAndTotalFromOneState ==
    pcall.pc = "done" =>
       [data |-> pcall.data, total |-> pcall.total]
          \in pcall.views \cup {View(pcall)}

\* the caller passed a value for the parameter, and it is not a positive
\* integer
NotPositiveInteger(v) ==
    v.kind # "omitted" /\ ~(v.kind = "int" /\ v.n >= 1)

\* C23: every paginated method of the Prisma controller (getAllTags,
\* searchTags, getUntaggedImages, getImagesWithTags) throws when the page or
\* the pageSize it is given is not a positive integer, and a call that throws
\* has issued no store query and carries no data; a call that returns has
\* issued its two queries and returns the page and pageSize it was given,
\* both positive.
C23_InvalidPaginationRejected ==
    pcall.pc # "idle" =>
       /\ pcall.method \in {"getAllTags", "searchTags", "getUntaggedImages",
                            "getImagesWithTags"}
       /\ NotPositiveInteger(pcall.page) \/ NotPositiveInteger(pcall.pageSize)
             => pcall.pc = "threw"
       /\ pcall.pc = "threw" =>
             /\ pcall.issued = 0
             /\ pcall.data = <<>>
             /\ pcall.total = 0
       /\ pcall.pc = "done" =>
             /\ pcall.issued = 2
             /\ pcall.pageNum >= 1
             /\ pcall.numPerPage >= 1
             /\ pcall.page.kind # "omitted" => pcall.pageNum = pcall.page.n
             /\ pcall.pageSize.kind # "omitted" =>
                   pcall.numPerPage = pcall.pageSize.n

\* getUntaggedImages with a valid page and a pageSize that is no integer, on
\* a store with an untagged image
C23_Witness ==
    /\ pcall.pc = "threw"
    /\ pcall.method = "getUntaggedImages"
    /\ pcall.page = Arg("int", 1)
    /\ pcall.pageSize.kind = "frac"
    /\ \E i \in images : \A t \in TagIds : ~Associated(i, t)

\* C24: getImagesWithTags called without a page uses page
\* DEFAULT_PAGE_NUMBER and skips no row.
C24_DefaultPageIsFirst ==
    pcall.method = "getImagesWithTags" /\ pcall.pc = "done"
       /\ pcall.page = Omitted =>
          /\ pcall.pageNum = DEFAULT_PAGE_NUMBER
          /\ (pcall.pageNum - 1) * pcall.numPerPage = 0

\* C25: for positive page and pageSize, getPage over an ordered candidate
\* list and skip = (page-1)*pageSize, take = pageSize over the same list
\* select the same sub-sequence: for the page the call returned and for
\* every other page and page size of its candidate list.
C25_GetPageEqualsSkipTake ==
    pcall.pc = "done" =>
       LET candidates == PrismaMatches(pcall) IN
       /\ pcall.data = getPage(candidates, pcall.pageNum, pcall.numPerPage)
       /\ \A p \in 1..(MaxPage + 1), ps \in 1..(MaxPageSize + 1) :
             getPage(candidates, p, ps) =
                SkipTake(candidates, (p - 1) * ps, ps)

\* the second page of two candidates
C25_Witness ==
    /\ pcall.pc = "done"
    /\ pcall.pageNum = 2
    /\ pcall.numPerPage = 1
    /\ pcall.total = 2
    /\ Len(pcall.data) = 1

\* C26: getImagesWithTags of the Prisma controller throws, before any query,
\* when tagIDs is empty or holds an id that is not positive; otherwise its
\* candidates are exactly the images associated with every tag of tagIDs,
\* the same for a list with an id repeated as for the list without the
\* repetition, and for a duplicate-free list the same as the candidates of
\* the SQL group-and-count filter.
C26_PrismaFilterIsConjunction ==
    pcall.method = "getImagesWithTags" /\ pcall.pc # "idle" =>
       /\ (Len(pcall.tagIDs) = 0
             \/ \E k \in 1..Len(pcall.tagIDs) : pcall.tagIDs[k] <= 0) =>
                pcall.pc = "threw" /\ pcall.issued = 0
       /\ pcall.pc = "done" =>
             /\ Range(PrismaMatches(pcall)) = HasAllTags(pcall.tagIDs)
             /\ pcall.total = Cardinality(HasAllTags(pcall.tagIDs))
             /\ Range(pcall.data) \subseteq HasAllTags(pcall.tagIDs)
             /\ PrismaMatches(pcall) =
                   PrismaMatches([pcall EXCEPT
                                     !.tagIDs = SortAsc(Range(pcall.tagIDs))])
             /\ NoDuplicates(pcall.tagIDs) =>
                   PrismaMatches(pcall) = TaggedMatches(pcall.tagIDs)

\* a call for two different tags found an image while another image has
\* only one of the two
C26_Witness ==
    /\ pcall.method = "getImagesWithTags"
    /\ pcall.pc = "done"
    /\ Len(pcall.tagIDs) = 2
    /\ NoDuplicates(pcall.tagIDs)
    /\ pcall.total >= 1
    /\ \E i \in images :
          /\ i \notin HasAllTags(pcall.tagIDs)
          /\ \E t \in Range(pcall.tagIDs) : Associated(i, t)

\* both calls are over, made for the same image with lists of tag ids
BothFinished ==
    /\ \A u \in Updaters : upd[u].pc \in {"returned", "threw"}
    /\ \A u, v \in Updaters : upd[u].imgID = upd[v].imgID
    /\ \A u \in Updaters : ~upd[u].nan

\* C27: once two updateImageTags calls on the same image are both over, one
\* of them at least having returned, the tag ids of the rows of the image
\* are the newTagIds of one of the two calls.
C27_ConcurrentUpdatesDoNotMix ==
    BothFinished /\ (\E u \in Updaters : upd[u].pc = "returned") =>
       \E u \in Updaters :
          TagIdsOf(image_tags, upd[u].imgID) = upd[u].newTagIds

\* C28: a call of updateImageTags that throws, no other call having run
\* meanwhile, leaves the rows of the image as it found them.
C28_UpdateImageTagsAllOrNothing ==
    \A u \in Updaters :
       upd[u].pc = "threw" /\ upd[u].solo =>
          TagIdsOf(image_tags, upd[u].imgID) = upd[u].found

\* the image ids of page p of the call q, as its store query pages them
PageIds(q, p) ==
    IF Len(q.tagIDs) = 0
    THEN DataIds(getPaginatedUntaggedTaggedImages([q EXCEPT !.page = p]))
    ELSE getPaginatedImagesWithTags([q EXCEPT !.page = p]).data

\* ceil(total / pageSize)
NumPages(total, pageSize) == (total + pageSize - 1) \div pageSize

\* the first n of a list of pages, one after the other
RECURSIVE ConcatPages(_, _)
ConcatPages(pages, n) ==
    IF n = 0 THEN <<>> ELSE ConcatPages(pages, n - 1) \o pages[n]

\* C29: on one store state, for the tagIDs and the pageSize of the call, the
\* pages 1..ceil(total/pageSize) are non-empty, pairwise disjoint and, one
\* after the other, the whole candidate list in ascending id order; the
\* store queries of the call, repeated on the same store, give the page and
\* the total the call returned.
C29_PagesPartitionTheCandidates ==
    qpc = "done" =>
       LET n == NumPages(result.total, query.pageSize)
           pages == [a \in 1..n |-> PageIds(query, a)]
       IN  /\ ConcatPages(pages, n) = SortAsc(CandidateSet(query))
           /\ \A a \in 1..n : pages[a] # <<>>
           /\ \A a, b \in 1..n :
                 a < b => Range(pages[a]) \cap Range(pages[b]) = {}
           /\ query.page <= n => DataIds(result) = pages[query.page]
           /\ query.page > n => result.data = <<>>
           /\ result.total = StoreTotal(query)

\* a tagged call with two candidates on two pages
C29_Witness ==
    /\ TaggedDone
    /\ result.total = 2
    /\ query.pageSize = 1
    /\ NumPages(result.total, query.pageSize) = 2

\* the 1-based positions, in the candidate list, of the items of the page
PositionsOnPage(r) == {Offset(r) + k : k \in 1..Len(r.data)}

\* C30: for a result shown on one of its pages 1..ceil(total/pageSize), the
\* Paginator computes numPages = ceil(total/pageSize); Previous is disabled
\* exactly on page 1 and otherwise leads to page - 1; Next is disabled
\* exactly on the last page and otherwise leads to page + 1; and the range
\* it displays, start to end, is exactly the positions of the items of the
\* page.
C30_PaginatorNavigates ==
    qpc = "done" /\ result.page >= 1
       /\ result.page <= NumPages(result.total, result.pageSize) =>
          /\ PaginatorNumPages(result) =
                NumPages(result.total, result.pageSize)
          /\ PreviousDisabled(result) <=> result.page = 1
          /\ ~PreviousDisabled(result) =>
                PreviousTarget(result) = result.page - 1
          /\ NextDisabled(result) <=>
                result.page = NumPages(result.total, result.pageSize)
          /\ ~NextDisabled(result) => NextTarget(result) = result.page + 1
          /\ PaginatorStart(result)..PaginatorEnd(result) =
                PositionsOnPage(result)

====
